---- MODULE Spec2Model ----
(***************************************************************************)
(* Nyunda: cost-annotated AST, Greedy Best-First optimizer, memoizing DP   *)
(* expression evaluator and tree-walking interpreter.                      *)
(*                                                                         *)
(* Numbers are Python floats in the source; they are modelled as exact     *)
(* rationals [n, d] in lowest terms (d > 0).  Strings are sequences of     *)
(* code points.  A raised exception is a value of kind "err".              *)
(***************************************************************************)
EXTENDS Integers, Sequences, FiniteSets, TLC

\* ---------------------------------------------------------------- bounds
\* number literals of the enumerated input expressions are 0..MaxNum
MaxNum == 2
\* values assigned to x in the evaluator's variable mapping are -MaxVal..0
MaxVal == 2
\* assignments and evaluate_with_dp calls in one behaviour of the evaluator
MaxAssigns == 2
MaxEvals == 3

\* ---------------------------------------------------------------- values
Abs(i) == IF i < 0 THEN -i ELSE i

RECURSIVE Gcd(_, _)
Gcd(a, b) == IF b = 0 THEN a ELSE Gcd(b, a % b)

\* the rational n/d (d # 0) in lowest terms with a positive denominator
Rat(n, d) ==
    LET g == Gcd(Abs(n), Abs(d))
        s == IF d < 0 THEN -1 ELSE 1
    IN  [k |-> "num", n |-> (s * n) \div g, d |-> (s * d) \div g]

\* a float with an integral value
Num(i)  == [k |-> "num", n |-> i, d |-> 1]
\* a Python int; the parser only makes floats, the optimizer's NumberNode(0)
\* holds an int
PyInt(i)  == [k |-> "int", n |-> i, d |-> 1]
Bool(b) == [k |-> "bool", b |-> b]
Str(s)  == [k |-> "str", s |-> s]
Err(e)  == [k |-> "err", e |-> e]
\* Python's None
NoneVal == [k |-> "none"]

IsErr(v) == v.k = "err"
\* bool is a subclass of int: it takes part in arithmetic as 0 / 1
IsNumeric(v) == v.k \in {"num", "int", "bool"}
AsNum(v) == IF v.k = "bool" THEN PyInt(IF v.b THEN 1 ELSE 0) ELSE v
\* equality of two numbers: an int equals the float of the same value
NumEq(a, b) == a.n = b.n /\ a.d = b.d

RAdd(a, b) == Rat(a.n * b.d + b.n * a.d, a.d * b.d)
RSub(a, b) == Rat(a.n * b.d - b.n * a.d, a.d * b.d)
RMul(a, b) == Rat(a.n * b.n, a.d * b.d)
RLt(a, b)  == a.n * b.d < b.n * a.d
\* floor of a rational (TLA+ \div rounds toward minus infinity)
RFloor(a)  == a.n \div a.d

RECURSIVE IntPow(_, _)
IntPow(b, e) == IF e = 0 THEN 1 ELSE b * IntPow(b, e - 1)

\* a / b : float division, ZeroDivisionError on a zero divisor
RDiv(a, b) ==
    IF b.n = 0 THEN Err("ZeroDivisionError") ELSE Rat(a.n * b.d, a.d * b.n)

\* a % b : a - b * floor(a / b), ZeroDivisionError on a zero divisor
RMod(a, b) ==
    IF b.n = 0 THEN Err("ZeroDivisionError")
    ELSE RSub(a, RMul(b, Num(RFloor(Rat(a.n * b.d, a.d * b.n)))))

\* a ** b for an integral exponent b; 0 ** negative raises ZeroDivisionError.
\* A fractional exponent gives an irrational (or complex) float, kept
\* symbolic; the enumerated inputs never produce one.
RPow(a, b) ==
    IF b.d # 1 THEN [k |-> "pow", base |-> a, exp |-> b]
    ELSE IF b.n >= 0 THEN Rat(IntPow(a.n, b.n), IntPow(a.d, b.n))
    ELSE IF a.n = 0 THEN Err("ZeroDivisionError")
    ELSE Rat(IntPow(a.d, -b.n), IntPow(a.n, -b.n))

\* lexicographic order on strings (sequences of code points)
RECURSIVE SeqLt(_, _)
SeqLt(s, t) ==
    IF t = <<>> THEN FALSE
    ELSE IF s = <<>> THEN TRUE
    ELSE IF Head(s) # Head(t) THEN Head(s) < Head(t)
    ELSE SeqLt(Tail(s), Tail(t))

\* decimal digits of a natural number, as code points
RECURSIVE Digits(_)
Digits(i) == IF i < 10 THEN <<48 + i>> ELSE Digits(i \div 10) \o <<48 + (i % 10)>>

\* str(v): "True"/"False", "3.0", "-2.0", "0" for an int; a non-integral float is rendered
\* as "n/d" (its decimal expansion is not modelled)
PyStr(v) ==
    IF v.k = "str" THEN v.s
    ELSE IF v.k = "bool" THEN (IF v.b THEN <<84, 114, 117, 101>> ELSE <<70, 97, 108, 115, 101>>)
    ELSE LET sign == IF v.n < 0 THEN <<45>> ELSE <<>>
         IN  IF v.k = "int" THEN sign \o Digits(Abs(v.n))
             ELSE IF v.d = 1 THEN sign \o Digits(Abs(v.n)) \o <<46, 48>>
             ELSE sign \o Digits(Abs(v.n)) \o <<47>> \o Digits(v.d)

\* Python's == on two values (never raises): numbers and bools compare
\* numerically, strings by content, a string never equals a number
PyEq(l, r) ==
    IF IsNumeric(l) /\ IsNumeric(r) THEN NumEq(AsNum(l), AsNum(r))
    ELSE IF l.k = "str" /\ r.k = "str" THEN l.s = r.s
    ELSE FALSE

\* bool(v): numeric zero, False and the empty string are falsy
Truthy(v) ==
    IF v.k \in {"num", "int"} THEN v.n # 0
    ELSE IF v.k = "bool" THEN v.b
    ELSE IF v.k = "str" THEN v.s # <<>>
    ELSE FALSE

ArithOps == {"+", "-", "*", "/", "%", "**"}
OrderOps == {"<", ">", "<=", ">="}
\* the twelve operators of the evaluators' op_map
OpMapOps == ArithOps \cup OrderOps \cup {"==", "!="}

\* the value of a op b as a float
FloatArith(op, a, b) ==
    CASE op = "+"  -> RAdd(a, b)
      [] op = "-"  -> RSub(a, b)
      [] op = "*"  -> RMul(a, b)
      [] op = "/"  -> RDiv(a, b)
      [] op = "%"  -> RMod(a, b)
      [] op = "**" -> RPow(a, b)

\* two ints give an int, except under / and under ** with a negative exponent
NumArith(op, a, b) ==
    LET v == FloatArith(op, a, b)
    IN  IF /\ a.k = "int" /\ b.k = "int" /\ ~IsErr(v)
           /\ (op \in {"+", "-", "*", "%"} \/ (op = "**" /\ b.n >= 0))
        THEN PyInt(v.n) ELSE v

\* s * n for a string s and an int n: n copies of s, none for n <= 0
RECURSIVE Repeat(_, _)
Repeat(s, n) == IF n <= 0 THEN <<>> ELSE s \o Repeat(s, n - 1)

\* op_map[op](left, right) with Python's dynamic typing; a raised exception
\* is returned as an "err" value
PyOp(op, l, r) ==
    IF op = "==" THEN Bool(PyEq(l, r))
    ELSE IF op = "!=" THEN Bool(~PyEq(l, r))
    ELSE IF op \in OrderOps THEN
        IF IsNumeric(l) /\ IsNumeric(r) THEN
            LET a == AsNum(l)
                b == AsNum(r)
            IN  CASE op = "<"  -> Bool(RLt(a, b))
                  [] op = ">"  -> Bool(RLt(b, a))
                  [] op = "<=" -> Bool(~RLt(b, a))
                  [] op = ">=" -> Bool(~RLt(a, b))
        ELSE IF l.k = "str" /\ r.k = "str" THEN
            CASE op = "<"  -> Bool(SeqLt(l.s, r.s))
              [] op = ">"  -> Bool(SeqLt(r.s, l.s))
              [] op = "<=" -> Bool(~SeqLt(r.s, l.s))
              [] op = ">=" -> Bool(~SeqLt(l.s, r.s))
        ELSE Err("TypeError")
    ELSE IF IsNumeric(l) /\ IsNumeric(r) THEN NumArith(op, AsNum(l), AsNum(r))
    ELSE IF op = "+" /\ l.k = "str" /\ r.k = "str" THEN Str(l.s \o r.s)
    ELSE IF op = "*" /\ l.k = "str" /\ r.k \in {"int", "bool"}
         THEN Str(Repeat(l.s, AsNum(r).n))
    ELSE IF op = "*" /\ l.k \in {"int", "bool"} /\ r.k = "str"
         THEN Str(Repeat(r.s, AsNum(l).n))
    ELSE Err("TypeError")

\* ------------------------------------------------------------ AST nodes
NumberNode(v)   == [type |-> "NumberNode", value |-> v]
StringNode(s)   == [type |-> "StringNode", value |-> s]
VariableNode(x) == [type |-> "VariableNode", name |-> x]
BinaryOpNode(l, op, r) ==
    [type |-> "BinaryOpNode", left |-> l, operator |-> op, right |-> r]
AssignmentNode(x, e) == [type |-> "AssignmentNode", variable |-> x, value |-> e]
IfNode(c, t, e) ==
    [type |-> "IfNode", condition |-> c, then_branch |-> t, else_branch |-> e]
WhileNode(c, b) == [type |-> "WhileNode", condition |-> c, body |-> b]
PrintNode(e)    == [type |-> "PrintNode", expression |-> e]
BlockNode(ss)   == [type |-> "BlockNode", statements |-> ss]

ExprTypes == {"NumberNode", "StringNode", "VariableNode", "BinaryOpNode"}

OpCost(op) ==
    CASE op = "**" -> 20
      [] op = "*"  -> 8
      [] op = "/"  -> 10
      [] op = "%"  -> 12
      [] op \in {"+", "-"} -> 3
      [] op \in {"==", "!=", "<", ">", "<=", ">="} -> 4
      [] OTHER -> 5

RECURSIVE Cost(_)
RECURSIVE SumCost(_)
\* sum of the costs of a statement list
SumCost(ss) == IF ss = <<>> THEN 0 ELSE Cost(Head(ss)) + SumCost(Tail(ss))

\* calculate_cost of every node class
Cost(node) ==
    CASE node.type \in {"NumberNode", "StringNode"} -> 1
      [] node.type = "VariableNode" -> 2
      [] node.type = "BinaryOpNode" ->
            Cost(node.left) + Cost(node.right) + OpCost(node.operator)
      [] node.type = "AssignmentNode" -> 5 + Cost(node.value)
      [] node.type = "IfNode" ->
            15 + Cost(node.condition) + SumCost(node.then_branch)
               + SumCost(node.else_branch)
      [] node.type = "WhileNode" ->
            (Cost(node.condition) + SumCost(node.body)) * 10
      [] node.type = "PrintNode" -> 8 + Cost(node.expression)
      [] node.type = "BlockNode" -> SumCost(node.statements)

\* ------------------------------------------------- plain evaluator
\* the variable mapping is a function from the bound names to values
NoVars == [x \in {} |-> NoneVal]
Bind(vars, x, v) == [y \in DOMAIN vars \cup {x} |-> IF y = x THEN v ELSE vars[y]]

\* the value of a literal node
LiteralValue(node) ==
    IF node.type = "NumberNode" THEN node.value ELSE Str(node.value)

\* the operator application of _evaluate_recursively: '+' with a string on
\* either side concatenates the textual forms; TypeError and
\* ZeroDivisionError are re-raised as the same kinds
PlainApply(op, l, r) ==
    IF op \notin OpMapOps THEN Err("ValueError")
    ELSE IF op = "+" /\ (l.k = "str" \/ r.k = "str") THEN Str(PyStr(l) \o PyStr(r))
    ELSE PyOp(op, l, r)

RECURSIVE EvaluateRecursively(_, _)
EvaluateRecursively(node, vars) ==
    CASE node.type \in {"NumberNode", "StringNode"} -> LiteralValue(node)
      [] node.type = "VariableNode" ->
            IF node.name \notin DOMAIN vars THEN Err("NameError")
            ELSE vars[node.name]
      [] node.type = "BinaryOpNode" ->
            LET left == EvaluateRecursively(node.left, vars)
            IN  IF IsErr(left) THEN left
                ELSE LET right == EvaluateRecursively(node.right, vars)
                     IN  IF IsErr(right) THEN right
                         ELSE PlainApply(node.operator, left, right)
      [] OTHER -> Err("ValueError")

\* ---------------------------------------------------- DP evaluator
\* hash(v): equal numbers hash equally (True as 1), and CPython reserves
\* -1 as the error code of the hash slot, so hash(-1.0) = hash(-2.0) = -2.
\* The hash is represented by the value it identifies; string hashes and
\* the other numeric hashes are taken to be collision-free.
PyHash(v) ==
    IF IsNumeric(v)
    THEN (IF NumEq(AsNum(v), Num(-1)) THEN Num(-2) ELSE Rat(AsNum(v).n, AsNum(v).d))
    ELSE v

\* hash(frozenset(variables.items())): an order-independent combination of
\* the item hashes, each derived from hash(name) and hash(value)
HashVarState(vars) == {<<x, PyHash(vars[x])>> : x \in DOMAIN vars}

RECURSIVE GetNodeRepr(_)
GetNodeRepr(node) ==
    CASE node.type = "NumberNode" -> <<"NUM", node.value>>
      [] node.type = "StringNode" -> <<"STR", PyHash(Str(node.value))>>
      [] node.type = "VariableNode" -> <<"VAR", node.name>>
      [] node.type = "BinaryOpNode" ->
            <<"BIN", GetNodeRepr(node.left), node.operator, GetNodeRepr(node.right)>>
      [] OTHER -> <<node.type>>

\* a key that leaves the variable state out
KeyWithoutVarState(node, vars) == <<GetNodeRepr(node), {}>>

GetExpressionKey(node, vars) == <<GetNodeRepr(node), HashVarState(vars)>>

\* a fresh DPExpressionEvaluator
NewEvaluator ==
    [memo_table |-> [key \in {} |-> NoneVal], subproblem_count |-> 0, cache_hits |-> 0]

\* the result is returned without being stored
MemoizeDropped(ev, key, result) == ev

\* self.memo_table[key] = result
Memoize(ev, key, result) ==
    [ev EXCEPT !.memo_table =
        [q \in DOMAIN ev.memo_table \cup {key} |->
            IF q = key THEN result ELSE ev.memo_table[q]]]

\* the operator application of evaluate_with_dp: no string special case
DPApply(op, l, r) ==
    IF op \notin OpMapOps THEN Err("ValueError") ELSE PyOp(op, l, r)

\* evaluate_with_dp(node, variables) on evaluator state ev: the returned (or
\* raised) value and the evaluator state the call leaves behind
RECURSIVE EvaluateWithDP(_, _, _)
EvaluateWithDP(node, vars, ev) ==
    LET key == GetExpressionKey(node, vars)
    IN  IF key \in DOMAIN ev.memo_table
        THEN [result |-> ev.memo_table[key],
              ev |-> [ev EXCEPT !.cache_hits = @ + 1]]
        ELSE
          LET ev1 == [ev EXCEPT !.subproblem_count = @ + 1]
          IN  CASE node.type \in {"NumberNode", "StringNode"} ->
                     [result |-> LiteralValue(node),
                      ev |-> Memoize(ev1, key, LiteralValue(node))]
                [] node.type = "VariableNode" ->
                     IF node.name \notin DOMAIN vars
                     THEN [result |-> Err("NameError"), ev |-> ev1]
                     ELSE [result |-> vars[node.name],
                           ev |-> Memoize(ev1, key, vars[node.name])]
                [] node.type = "BinaryOpNode" ->
                     LET l == EvaluateWithDP(node.left, vars, ev1)
                     IN  IF IsErr(l.result) THEN l
                         ELSE
                           LET r == EvaluateWithDP(node.right, vars, l.ev)
                           IN  IF IsErr(r.result) THEN r
                               ELSE
                                 LET v == DPApply(node.operator, l.result, r.result)
                                 IN  IF IsErr(v) THEN [result |-> v, ev |-> r.ev]
                                     ELSE [result |-> v, ev |-> Memoize(r.ev, key, v)]
                [] OTHER -> [result |-> Err("ValueError"), ev |-> ev1]

\* ------------------------------------------------------- optimizer
\* default max_depth of GreedyBestFirstOptimizer
DefaultMaxDepth == 5
\* the search loop stops once the queue holds this many states
QueueLimit == 100

\* an OptimizationState with a wrong sentinel cost
SentinelState(ast) ==
    [ast |-> ast, cost |-> 1000, depth |-> 0, transformations |-> <<>>]

\* OptimizationState(ast, ast.cost, 0, [])
InitialState(ast) ==
    [ast |-> ast, cost |-> Cost(ast), depth |-> 0, transformations |-> <<>>]

\* the comparison turned around
StateGt(a, b) == a.cost > b.cost

\* OptimizationState.__lt__
StateLt(a, b) == a.cost < b.cost

\* heapq on a list; Python position p is element p + 1 of the sequence
RECURSIVE SiftDown(_, _, _, _)
SiftDown(heap, startpos, pos, newitem) ==
    IF pos > startpos
    THEN LET parentpos == (pos - 1) \div 2
             parent == heap[parentpos + 1]
         IN  IF StateLt(newitem, parent)
             THEN SiftDown([heap EXCEPT ![pos + 1] = parent], startpos, parentpos, newitem)
             ELSE [heap EXCEPT ![pos + 1] = newitem]
    ELSE [heap EXCEPT ![pos + 1] = newitem]

RECURSIVE SiftUpLoop(_, _, _, _)
SiftUpLoop(heap, startpos, pos, newitem) ==
    LET endpos == Len(heap)
        childpos == 2 * pos + 1
        rightpos == childpos + 1
    IN  IF childpos < endpos
        THEN LET c == IF rightpos < endpos
                         /\ ~StateLt(heap[childpos + 1], heap[rightpos + 1])
                      THEN rightpos ELSE childpos
             IN  SiftUpLoop([heap EXCEPT ![pos + 1] = heap[c + 1]], startpos, c, newitem)
        ELSE SiftDown([heap EXCEPT ![pos + 1] = newitem], startpos, pos, newitem)

SiftUp(heap, pos) == SiftUpLoop(heap, pos, pos, heap[pos + 1])

HeapPush(heap, item) == SiftDown(Append(heap, item), 0, Len(heap), item)

\* heappop of a non-empty heap: the popped item and the remaining heap
HeapPop(heap) ==
    LET lastelt == heap[Len(heap)]
        rest == SubSeq(heap, 1, Len(heap) - 1)
    IN  IF rest # <<>>
        THEN [item |-> rest[1], heap |-> SiftUp([rest EXCEPT ![1] = lastelt], 0)]
        ELSE [item |-> lastelt, heap |-> <<>>]

RECURSIVE PushAll(_, _)
PushAll(heap, items) ==
    IF items = <<>> THEN heap
    ELSE PushAll(HeapPush(heap, Head(items)), Tail(items))

\* str(ast): the dataclass repr, which shows the class, the cost and every
\* field of every node
RECURSIVE StrAst(_)
StrAst(node) ==
    LET list(ss) == [i \in 1..Len(ss) |-> StrAst(ss[i])]
    IN  CASE node.type \in {"NumberNode", "StringNode"} ->
               <<node.type, Cost(node), node.value>>
          [] node.type = "VariableNode" -> <<node.type, Cost(node), node.name>>
          [] node.type = "BinaryOpNode" ->
               <<node.type, Cost(node), StrAst(node.left), node.operator,
                 StrAst(node.right)>>
          [] node.type = "AssignmentNode" ->
               <<node.type, Cost(node), node.variable, StrAst(node.value)>>
          [] node.type = "IfNode" ->
               <<node.type, Cost(node), StrAst(node.condition),
                 list(node.then_branch), list(node.else_branch)>>
          [] node.type = "WhileNode" ->
               <<node.type, Cost(node), StrAst(node.condition), list(node.body)>>
          [] node.type = "PrintNode" ->
               <<node.type, Cost(node), StrAst(node.expression)>>
          [] node.type = "BlockNode" ->
               <<node.type, Cost(node), list(node.statements)>>

\* str(hash(str(ast))): the string hash is taken to be collision-free, so
\* the signature is represented by the rendering it hashes
GetStateSignature(ast) == <<"hash", StrAst(ast)>>

\* the (None, "") result of a rule that does not apply
NoRewrite == [ok |-> FALSE, node |-> NoneVal, name |-> ""]
Rewrite(node, name) == [ok |-> TRUE, node |-> node, name |-> name]

IsBin(ast) == ast.type = "BinaryOpNode"
IsNumberNode(ast) == ast.type = "NumberNode"
\* isinstance(node, NumberNode) and node.value == c
IsLiteral(ast, c) == IsNumberNode(ast) /\ NumEq(ast.value, Num(c))

TryCommutativeReorder(ast) ==
    IF IsBin(ast) /\ ast.operator \in {"+", "*", "==", "!="}
       /\ Cost(ast.right) < Cost(ast.left)
    THEN Rewrite(BinaryOpNode(ast.right, ast.operator, ast.left), "commutative_reorder")
    ELSE NoRewrite

\* constant folding that never applies
NoConstantFolding(ast) == NoRewrite

TryConstantFolding(ast) ==
    IF IsBin(ast) /\ IsNumberNode(ast.left) /\ IsNumberNode(ast.right)
       /\ ast.operator \in {"+", "-", "*", "/", "**"}
    THEN LET result == PyOp(ast.operator, ast.left.value, ast.right.value)
         IN  IF IsErr(result) THEN NoRewrite
             ELSE Rewrite(NumberNode(result), "constant_folding")
    ELSE NoRewrite

TryAlgebraicSimplification(ast) ==
    IF ~IsBin(ast) THEN NoRewrite
    ELSE IF ast.operator = "+" /\ IsLiteral(ast.right, 0)
         THEN Rewrite(ast.left, "add_zero_elimination")
    ELSE IF ast.operator = "+" /\ IsLiteral(ast.left, 0)
         THEN Rewrite(ast.right, "add_zero_elimination")
    ELSE IF ast.operator = "*" /\ IsLiteral(ast.right, 1)
         THEN Rewrite(ast.left, "mul_one_elimination")
    ELSE IF ast.operator = "*" /\ IsLiteral(ast.left, 1)
         THEN Rewrite(ast.right, "mul_one_elimination")
    ELSE IF ast.operator = "*" /\ IsLiteral(ast.right, 0)
         THEN Rewrite(NumberNode(PyInt(0)), "mul_zero_elimination")
    ELSE IF ast.operator = "*" /\ IsLiteral(ast.left, 0)
         THEN Rewrite(NumberNode(PyInt(0)), "mul_zero_elimination")
    ELSE NoRewrite

TryStrengthReduction(ast) ==
    IF ~IsBin(ast) THEN NoRewrite
    ELSE IF ast.operator = "**" /\ IsLiteral(ast.right, 2)
         THEN Rewrite(BinaryOpNode(ast.left, "*", ast.left), "power_to_multiply")
    ELSE IF ast.operator = "*" /\ IsLiteral(ast.right, 2)
         THEN Rewrite(BinaryOpNode(ast.left, "+", ast.left), "multiply_to_add")
    ELSE NoRewrite

\* the transformations list of _generate_successors, in its order
Transformations ==
    <<"_try_constant_folding", "_try_algebraic_simplification",
      "_try_strength_reduction", "_try_commutative_reorder">>

\* transform_func(node)
TransformFunc(f, node) ==
    CASE f = "_try_constant_folding" -> TryConstantFolding(node)
      [] f = "_try_algebraic_simplification" -> TryAlgebraicSimplification(node)
      [] f = "_try_strength_reduction" -> TryStrengthReduction(node)
      [] f = "_try_commutative_reorder" -> TryCommutativeReorder(node)

\* the node itself first, then the left operand, then the right operand of a
\* BinaryOpNode; no other node type is entered
RECURSIVE ApplyTransformRecursively(_, _)
ApplyTransformRecursively(node, f) ==
    LET own == TransformFunc(f, node)
    IN  IF own.ok THEN own
        ELSE IF IsBin(node)
        THEN LET l == ApplyTransformRecursively(node.left, f)
             IN  IF l.ok
                 THEN Rewrite(BinaryOpNode(l.node, node.operator, node.right), l.name)
                 ELSE LET r == ApplyTransformRecursively(node.right, f)
                      IN  IF r.ok
                          THEN Rewrite(BinaryOpNode(node.left, node.operator, r.node), r.name)
                          ELSE NoRewrite
        ELSE NoRewrite

\* successors whose depth counts two steps for one rewrite
SuccessorsTwoDeeper(state) ==
    LET cands == [i \in 1..Len(Transformations) |->
                    ApplyTransformRecursively(state.ast, Transformations[i])]
        admitted == SelectSeq(cands,
                      LAMBDA c : c.ok /\ c.name # "" /\ Cost(c.node) < state.cost)
    IN  [i \in 1..Len(admitted) |->
            [ast |-> admitted[i].node, cost |-> Cost(admitted[i].node),
             depth |-> state.depth + 2,
             transformations |-> Append(state.transformations, admitted[i].name)]]

\* successors admitted when they cost no more than the state
SuccessorsNotStrict(state) ==
    LET cands == [i \in 1..Len(Transformations) |->
                    ApplyTransformRecursively(state.ast, Transformations[i])]
        admitted == SelectSeq(cands,
                      LAMBDA c : c.ok /\ c.name # "" /\ Cost(c.node) <= state.cost)
    IN  [i \in 1..Len(admitted) |->
            [ast |-> admitted[i].node, cost |-> Cost(admitted[i].node),
             depth |-> state.depth + 1,
             transformations |-> Append(state.transformations, admitted[i].name)]]

\* the successors of a state, in generation order
GenerateSuccessors(state) ==
    LET cands == [i \in 1..Len(Transformations) |->
                    ApplyTransformRecursively(state.ast, Transformations[i])]
        admitted == SelectSeq(cands,
                      LAMBDA c : c.ok /\ c.name # "" /\ Cost(c.node) < state.cost)
    IN  [i \in 1..Len(admitted) |->
            [ast |-> admitted[i].node, cost |-> Cost(admitted[i].node),
             depth |-> state.depth + 1,
             transformations |-> Append(state.transformations, admitted[i].name)]]

\* the locals of optimize when the loop is entered
StartSearch(ast) ==
    [priority_queue |-> <<InitialState(ast)>>, visited_states |-> {},
     best_state |-> InitialState(ast), states_explored |-> 0,
     transformations_applied |-> 0]

\* the loop condition of optimize
LoopGuard(s) == s.priority_queue # <<>> /\ Len(s.priority_queue) < QueueLimit

\* which way one iteration of the loop goes
LoopBranch(s, max_depth) ==
    LET current == HeapPop(s.priority_queue).item
    IN  IF GetStateSignature(current.ast) \in s.visited_states THEN "visited"
        ELSE IF current.depth >= max_depth THEN "depth"
        ELSE "expand"

\* an iteration that still expands a state whose depth equals max_depth
LoopBodyExpandsAtLimit(s, max_depth) ==
    LET popped == HeapPop(s.priority_queue)
        current == popped.item
        s1 == [s EXCEPT !.priority_queue = popped.heap, !.states_explored = @ + 1]
        sig == GetStateSignature(current.ast)
    IN  IF sig \in s.visited_states THEN s1
        ELSE
          LET s2 == [s1 EXCEPT !.visited_states = @ \cup {sig},
                               !.best_state = IF current.cost < s.best_state.cost
                                              THEN current ELSE @]
          IN  IF current.depth > max_depth THEN s2
              ELSE LET successors == GenerateSuccessors(current)
                   IN  [s2 EXCEPT !.priority_queue = PushAll(@, successors),
                                  !.transformations_applied = @ + Len(successors)]

\* one iteration of the loop of optimize
LoopBody(s, max_depth) ==
    LET popped == HeapPop(s.priority_queue)
        current == popped.item
        s1 == [s EXCEPT !.priority_queue = popped.heap, !.states_explored = @ + 1]
        sig == GetStateSignature(current.ast)
    IN  IF sig \in s.visited_states THEN s1
        ELSE
          LET s2 == [s1 EXCEPT !.visited_states = @ \cup {sig},
                               !.best_state = IF current.cost < s.best_state.cost
                                              THEN current ELSE @]
          IN  IF current.depth >= max_depth THEN s2
              ELSE LET successors == GenerateSuccessors(current)
                   IN  [s2 EXCEPT !.priority_queue = PushAll(@, successors),
                                  !.transformations_applied = @ + Len(successors)]

RECURSIVE RunLoop(_, _)
RunLoop(s, max_depth) ==
    IF LoopGuard(s) THEN RunLoop(LoopBody(s, max_depth), max_depth) ELSE s

\* optimize(ast) with the default max_depth: the returned pair
Optimize(ast) ==
    LET s == RunLoop(StartSearch(ast), DefaultMaxDepth)
    IN  [ast |-> s.best_state.ast, transformations |-> s.best_state.transformations]

\* ------------------------------------------------------------ state
VARIABLES
    \* optimize: the argument, the optimizer's fields and the loop's locals
    input_ast, max_depth, priority_queue, visited_states, best_state,
    states_explored, transformations_applied, opt_pc, returned,
    \* a single rewrite of an expression under a binding
    rw_expr, rw_vars, rw_out,
    \* the variable mapping and the DPExpressionEvaluator
    variables, dp_evaluator,
    \* bookkeeping of the evaluate_with_dp calls made so far
    assigns, evals, last_call, dirty, returned_calls, called_states,
    \* the pipeline of run_file and the interpreter
    run_pc, program, use_greedy, use_dp, ast, stack, result, messages,
    output, execution_count, executed, fault_at

optVars == <<input_ast, max_depth, priority_queue, visited_states, best_state,
             states_explored, transformations_applied, opt_pc, returned>>
rwVars  == <<rw_expr, rw_vars, rw_out>>
evVars  == <<variables, dp_evaluator>>
dpVars  == <<assigns, evals, last_call, dirty, returned_calls, called_states>>
runVars == <<run_pc, program, use_greedy, use_dp, ast, stack, result, messages,
             output, execution_count, executed, fault_at>>
vars == <<optVars, rwVars, evVars, dpVars, runVars>>

\* the parts of the state a specification does not use
OptIdle ==
    /\ input_ast = NoneVal /\ max_depth = DefaultMaxDepth
    /\ priority_queue = <<>> /\ visited_states = {} /\ best_state = NoneVal
    /\ states_explored = 0 /\ transformations_applied = 0
    /\ opt_pc = "idle" /\ returned = NoneVal
RwIdle == rw_expr = NoneVal /\ rw_vars = NoVars /\ rw_out = NoneVal
EvIdle == variables = NoVars /\ dp_evaluator = NewEvaluator
DpIdle ==
    /\ assigns = 0 /\ evals = 0 /\ last_call = NoneVal
    /\ dirty = {}
    /\ returned_calls = [c \in {} |-> NoneVal]
    /\ called_states = {}
RunIdle ==
    /\ run_pc = "idle" /\ program = NoneVal /\ use_greedy = FALSE
    /\ use_dp = FALSE /\ ast = NoneVal /\ stack = <<>> /\ result = NoneVal
    /\ messages = <<>> /\ output = <<>> /\ execution_count = 0
    /\ executed = <<>> /\ fault_at = 0

\* ----------------------------------------------- input expressions
Lit(i) == NumberNode(Num(i))
VarX == VariableNode("x")
VarY == VariableNode("y")

Leaves == {Lit(i) : i \in 0..MaxNum} \cup {VarX}
FoldableOps == {"+", "-", "*", "/", "**"}
\* a binary operation on two leaves
Flat(leaves, ops) == {BinaryOpNode(l, op, r) : l \in leaves, op \in ops, r \in leaves}
\* one level of nesting on the left or on the right; an exponent is a leaf
Nested(leaves, ops) ==
    {BinaryOpNode(l, op, r) : l \in Flat(leaves, ops), op \in ops, r \in leaves}
    \cup {BinaryOpNode(l, op, r) :
            l \in leaves, op \in ops \ {"**"}, r \in Flat(leaves, ops)}

\* 3 + 4 * 2
Example8 == BinaryOpNode(Lit(3), "+", BinaryOpNode(Lit(4), "*", Lit(2)))

\* 1 + 1 + ... + 1 with k additions, as the parser nests it
RECURSIVE LeftSum(_)
LeftSum(k) == IF k = 0 THEN Lit(1) ELSE BinaryOpNode(LeftSum(k - 1), "+", Lit(1))

OptInputs ==
    Leaves \cup Flat(Leaves, FoldableOps) \cup Nested(Leaves, FoldableOps)
    \cup {Example8, LeftSum(DefaultMaxDepth + 1)}

\* ---------------------------------------------------- optimize, stepwise
Search ==
    [priority_queue |-> priority_queue, visited_states |-> visited_states,
     best_state |-> best_state, states_explored |-> states_explored,
     transformations_applied |-> transformations_applied]

SetSearch(s) ==
    /\ priority_queue' = s.priority_queue
    /\ visited_states' = s.visited_states
    /\ best_state' = s.best_state
    /\ states_explored' = s.states_explored
    /\ transformations_applied' = s.transformations_applied

InitOpt ==
    /\ input_ast \in OptInputs
    /\ max_depth \in {DefaultMaxDepth, 2}
    /\ priority_queue = StartSearch(input_ast).priority_queue
    /\ visited_states = {}
    /\ best_state = StartSearch(input_ast).best_state
    /\ states_explored = 0 /\ transformations_applied = 0
    /\ opt_pc = "search" /\ returned = NoneVal
    /\ RwIdle /\ EvIdle /\ DpIdle /\ RunIdle

\* the loop is entered once more and its iteration goes the given way
CanIterate(branch) ==
    /\ opt_pc = "search"
    /\ LoopGuard(Search)
    /\ LoopBranch(Search, max_depth) = branch

\* the popped state's signature was seen: continue
PopVisited ==
    /\ CanIterate("visited")
    /\ SetSearch(LoopBody(Search, max_depth))
    /\ UNCHANGED <<input_ast, max_depth, opt_pc, returned>>
    /\ UNCHANGED <<rwVars, evVars, dpVars, runVars>>

\* the popped state is at max_depth: it is not expanded
PopDepthLimit ==
    /\ CanIterate("depth")
    /\ SetSearch(LoopBody(Search, max_depth))
    /\ UNCHANGED <<input_ast, max_depth, opt_pc, returned>>
    /\ UNCHANGED <<rwVars, evVars, dpVars, runVars>>

\* the popped state is expanded and its successors are pushed
PopExpand ==
    /\ CanIterate("expand")
    /\ SetSearch(LoopBody(Search, max_depth))
    /\ UNCHANGED <<input_ast, max_depth, opt_pc, returned>>
    /\ UNCHANGED <<rwVars, evVars, dpVars, runVars>>

\* the loop exits and optimize returns
OptReturn ==
    /\ opt_pc = "search"
    /\ ~LoopGuard(Search)
    /\ returned' = [ast |-> best_state.ast,
                    transformations |-> best_state.transformations]
    /\ opt_pc' = "returned"
    /\ UNCHANGED <<input_ast, max_depth, priority_queue, visited_states,
                   best_state, states_explored, transformations_applied>>
    /\ UNCHANGED <<rwVars, evVars, dpVars, runVars>>

NextOpt == PopVisited \/ PopDepthLimit \/ PopExpand \/ OptReturn
SpecOpt == InitOpt /\ [][NextOpt]_vars

\* C1: after every pop the best state costs no more than the input AST, and
\* the AST optimize returns costs no more than the input AST.
C1_CostMonotone ==
    opt_pc # "idle" =>
        /\ Cost(best_state.ast) <= Cost(input_ast)
        /\ opt_pc = "returned" => Cost(returned.ast) <= Cost(input_ast)

\* a run that returned a strictly cheaper AST after rejecting a successor
C1_Witness ==
    /\ opt_pc = "returned"
    /\ Cost(returned.ast) < Cost(input_ast)
    /\ states_explored > transformations_applied

\* C8: 3 + 4 * 2 is folded to the literal 11 and the transformation list
\* contains "constant_folding".
C8_Example ==
    (opt_pc = "returned" /\ input_ast = Example8 /\ max_depth = DefaultMaxDepth) =>
        /\ returned.ast = Lit(11)
        /\ \E i \in 1..Len(returned.transformations) :
              returned.transformations[i] = "constant_folding"

C8_Witness ==
    opt_pc = "returned" /\ input_ast = Example8 /\ max_depth = DefaultMaxDepth

\* only number literals combined by + - * / **
RECURSIVE FullyConstant(_)
FullyConstant(e) ==
    \/ IsNumberNode(e)
    \/ /\ IsBin(e) /\ e.operator \in FoldableOps
       /\ FullyConstant(e.left) /\ FullyConstant(e.right)

\* optimize called again, by the same optimizer, on the AST it returned
OptimizedAgain ==
    LET s == RunLoop(StartSearch(returned.ast), max_depth)
    IN  [ast |-> s.best_state.ast, transformations |-> s.best_state.transformations]

\* C11 (as claimed): for a fully-constant input, optimize applied to the AST
\* optimize returned gives back that same AST and applies no transformation.
C11_FoldTwice ==
    (opt_pc = "returned" /\ FullyConstant(input_ast)) =>
        OptimizedAgain = [ast |-> returned.ast, transformations |-> <<>>]

\* C11 (amended): the same, for the runs that ended with an empty queue and
\* applied fewer than max_depth transformations to the AST they returned.
C11_FoldTwiceWithinDepth ==
    (/\ opt_pc = "returned" /\ FullyConstant(input_ast)
     /\ priority_queue = <<>>
     /\ Len(returned.transformations) < max_depth) =>
        OptimizedAgain = [ast |-> returned.ast, transformations |-> <<>>]

\* a nested constant expression folded to a literal in two steps
C11_Witness ==
    /\ opt_pc = "returned" /\ FullyConstant(input_ast)
    /\ priority_queue = <<>>
    /\ IsBin(input_ast) /\ IsNumberNode(returned.ast)
    /\ Len(returned.transformations) = 2 /\ max_depth > 2

\* the number of states of a search tree with one successor per
\* transformation and max_depth levels below the root
RECURSIVE SearchTreeSize(_)
SearchTreeSize(d) ==
    IF d = 0 THEN 1 ELSE 1 + Len(Transformations) * SearchTreeSize(d - 1)

\* C12: optimize terminates: while it has not returned it can always take a
\* step (a loop iteration, or the exit and return), every loop iteration
\* counts in states_explored, and states_explored is bounded, because every
\* queued state is at most max_depth deep and costs less than the input by
\* at least its depth.
C12_Terminates ==
    opt_pc = "search" =>
        /\ \/ \E branch \in {"visited", "depth", "expand"} : CanIterate(branch)
           \/ ~LoopGuard(Search)
        /\ states_explored <= SearchTreeSize(max_depth)
        /\ states_explored + Len(priority_queue) = 1 + transformations_applied
        /\ \A i \in 1..Len(priority_queue) :
              /\ priority_queue[i].depth <= max_depth
              /\ priority_queue[i].cost <= Cost(input_ast) - priority_queue[i].depth

\* a search of several iterations that has exited with an empty queue
C12_Witness ==
    /\ opt_pc = "returned" /\ priority_queue = <<>>
    /\ states_explored >= 6 /\ Len(returned.transformations) >= 3

\* the state the next iteration pops and the queue it leaves
NextPop == HeapPop(priority_queue)

\* state a comes before state b in the order (cost ascending, then depth
\* ascending)
OrderedBefore(a, b) == a.cost < b.cost \/ (a.cost = b.cost /\ a.depth < b.depth)

\* C13: whenever the loop is about to pop, the state heappop takes is a
\* minimum of the queue under (cost, then depth): no state left in the queue
\* has lower cost, and none has equal cost with a smaller depth.
C13_PopOrder ==
    (opt_pc = "search" /\ LoopGuard(Search)) =>
        \A i \in 1..Len(NextPop.heap) : ~OrderedBefore(NextPop.heap[i], NextPop.item)

\* after an expansion, a pop that leaves a state of equal cost, and a pop that
\* leaves states of higher cost, in the queue
C13_Witness ==
    /\ opt_pc = "search" /\ LoopGuard(Search) /\ states_explored >= 1
    /\ Len(NextPop.heap) >= 2
    /\ \E i \in 1..Len(NextPop.heap) : NextPop.heap[i].cost = NextPop.item.cost
    /\ \E i \in 1..Len(NextPop.heap) : NextPop.heap[i].cost > NextPop.item.cost

\* C14: deduplication at enqueue: the queue never holds two states with the
\* same structural signature, nor a state whose signature was already seen.
C14_DedupAtEnqueue ==
    opt_pc = "search" =>
        /\ \A i, j \in 1..Len(priority_queue) :
              i # j => GetStateSignature(priority_queue[i].ast)
                         # GetStateSignature(priority_queue[j].ast)
        /\ \A i \in 1..Len(priority_queue) :
              GetStateSignature(priority_queue[i].ast) \notin visited_states

\* C15: no queued state is deeper than max_depth, a state about to be
\* expanded is shallower than max_depth, and the transformation list of the
\* best state, which optimize returns, has at most max_depth entries.
C15_DepthBound ==
    opt_pc # "idle" =>
        /\ \A i \in 1..Len(priority_queue) :
              /\ priority_queue[i].depth <= max_depth
              /\ Len(priority_queue[i].transformations) = priority_queue[i].depth
        /\ CanIterate("expand") => NextPop.item.depth < max_depth
        /\ Len(best_state.transformations) <= max_depth
        /\ opt_pc = "returned" => Len(returned.transformations) <= max_depth

\* a run that stopped at a state of depth max_depth and returned its list
C15_Witness ==
    /\ opt_pc = "returned" /\ max_depth = DefaultMaxDepth
    /\ Len(returned.transformations) = max_depth
    /\ IsBin(returned.ast)

\* the rule of the transformations list that reports the given name
RuleOf(name) ==
    CASE name = "constant_folding" -> "_try_constant_folding"
      [] name \in {"add_zero_elimination", "mul_one_elimination",
                   "mul_zero_elimination"} -> "_try_algebraic_simplification"
      [] name \in {"power_to_multiply", "multiply_to_add"} -> "_try_strength_reduction"
      [] name = "commutative_reorder" -> "_try_commutative_reorder"

\* the AST reached from node by the rewrites a transformation list names
RECURSIVE Replay(_, _)
Replay(node, names) ==
    IF names = <<>> THEN node
    ELSE Replay(ApplyTransformRecursively(node, RuleOf(Head(names))).node, Tail(names))

\* the AST of the state the given state was generated from
ParentAst(state) ==
    Replay(input_ast, SubSeq(state.transformations, 1, Len(state.transformations) - 1))

\* the states optimize holds: the queued ones and the best one
HeldStates == {priority_queue[i] : i \in 1..Len(priority_queue)} \cup {best_state}

\* C16: every enqueued successor costs strictly less than the state it was
\* generated from, and "commutative_reorder" is in no held or returned
\* transformation list.
C16_StrictAdmission ==
    opt_pc # "idle" =>
        /\ \A q \in HeldStates :
              /\ q.depth > 0 =>
                    /\ q.ast = Replay(input_ast, q.transformations)
                    /\ q.cost = Cost(q.ast)
                    /\ q.cost < Cost(ParentAst(q))
              /\ \A i \in 1..Len(q.transformations) :
                    q.transformations[i] # "commutative_reorder"
        /\ opt_pc = "returned" =>
              \A i \in 1..Len(returned.transformations) :
                  returned.transformations[i] # "commutative_reorder"

\* a run on an AST in which a reorder applied, with a rewrite returned
C16_Witness ==
    /\ opt_pc = "returned"
    /\ ApplyTransformRecursively(input_ast, "_try_commutative_reorder").ok
    /\ Len(returned.transformations) >= 2

\* every AST obtained from node by one rule applied at one position
RECURSIVE SingleSiteRewrites(_)
SingleSiteRewrites(node) ==
    LET here == {TransformFunc(Transformations[i], node).node :
                    i \in {j \in 1..Len(Transformations) :
                             TransformFunc(Transformations[j], node).ok}}
    IN  IF IsBin(node)
        THEN here
             \cup {BinaryOpNode(l, node.operator, node.right) :
                     l \in SingleSiteRewrites(node.left)}
             \cup {BinaryOpNode(node.left, node.operator, r) :
                     r \in SingleSiteRewrites(node.right)}
        ELSE here

\* dataclass equality of two expression ASTs: the same shape, operators and
\* names, and numerically equal literals (0 == 0.0)
RECURSIVE SameAst(_, _)
SameAst(a, b) ==
    /\ a.type = b.type
    /\ CASE a.type = "NumberNode" -> NumEq(a.value, b.value)
         [] a.type = "BinaryOpNode" ->
              /\ a.operator = b.operator
              /\ SameAst(a.left, b.left) /\ SameAst(a.right, b.right)
         [] OTHER -> a = b

\* C17: an expansion enqueues every single-site rewrite of the expanded AST
\* that costs less than it (each is generated as a candidate, and a cheaper
\* candidate is admitted).
C17_AllSingleSites ==
    [][CanIterate("expand") =>
        \A r \in SingleSiteRewrites(NextPop.item.ast) :
            Cost(r) < NextPop.item.cost =>
                \E i \in 1..Len(priority_queue') : SameAst(priority_queue'[i].ast, r)]_vars

\* the transformation list of the state a queued state was generated from
ParentList(state) ==
    SubSeq(state.transformations, 1, Len(state.transformations) - 1)

\* C18: the successors an expansion pushes cost strictly less than every
\* state the pop left in the queue; and two queued states of equal cost were
\* generated from the same parent and have the same depth.
C18_PushBelowQueue ==
    opt_pc = "search" =>
        /\ CanIterate("expand") =>
              LET successors == GenerateSuccessors(NextPop.item)
              IN  \A i \in 1..Len(successors), j \in 1..Len(NextPop.heap) :
                      successors[i].cost < NextPop.heap[j].cost
        /\ \A i, j \in 1..Len(priority_queue) :
              (i # j /\ priority_queue[i].cost = priority_queue[j].cost) =>
                  /\ priority_queue[i].depth = priority_queue[j].depth
                  /\ priority_queue[i].depth > 0
                  /\ ParentList(priority_queue[i]) = ParentList(priority_queue[j])

\* an expansion that pushes onto a non-empty queue holding two states of
\* equal cost
C18_Witness ==
    /\ CanIterate("expand")
    /\ GenerateSuccessors(NextPop.item) # <<>>
    /\ Len(NextPop.heap) >= 2
    /\ \E i, j \in 1..Len(NextPop.heap) :
          i # j /\ NextPop.heap[i].cost = NextPop.heap[j].cost

\* ------------------------------------------- one rewrite of an expression
StrA == StringNode(<<97>>)
RwLeaves == Leaves \cup {StrA}
RwExprs ==
    RwLeaves \cup Flat(RwLeaves, FoldableOps) \cup Nested(RwLeaves, FoldableOps)
\* x unbound, bound to a number, or bound to a string
RwBindings ==
    {NoVars} \cup {Bind(NoVars, "x", Num(i)) : i \in (-1)..MaxNum}
    \cup {Bind(NoVars, "x", Str(<<97>>))}

\* the same value, or a fault in both
SameOutcome(a, b) ==
    IF IsErr(a) \/ IsErr(b) THEN IsErr(a) /\ IsErr(b) ELSE PyEq(a, b)

InitRw ==
    /\ rw_expr \in RwExprs
    /\ rw_vars \in RwBindings
    /\ rw_out = NoneVal
    /\ OptIdle /\ DpIdle /\ RunIdle
    /\ variables = NoVars /\ dp_evaluator = NewEvaluator

\* E is rewritten once by constant folding
RewriteFold ==
    /\ rw_expr # NoneVal /\ rw_out = NoneVal
    /\ ApplyTransformRecursively(rw_expr, "_try_constant_folding").ok
    /\ rw_out' = ApplyTransformRecursively(rw_expr, "_try_constant_folding")
    /\ UNCHANGED <<rw_expr, rw_vars, optVars, evVars, dpVars, runVars>>

\* E is rewritten once by an algebraic identity
RewriteIdentity ==
    /\ rw_expr # NoneVal /\ rw_out = NoneVal
    /\ ApplyTransformRecursively(rw_expr, "_try_algebraic_simplification").ok
    /\ rw_out' = ApplyTransformRecursively(rw_expr, "_try_algebraic_simplification")
    /\ UNCHANGED <<rw_expr, rw_vars, optVars, evVars, dpVars, runVars>>

\* E is rewritten once by strength reduction
RewriteStrength ==
    /\ rw_expr # NoneVal /\ rw_out = NoneVal
    /\ ApplyTransformRecursively(rw_expr, "_try_strength_reduction").ok
    /\ rw_out' = ApplyTransformRecursively(rw_expr, "_try_strength_reduction")
    /\ UNCHANGED <<rw_expr, rw_vars, optVars, evVars, dpVars, runVars>>

NextRw == RewriteFold \/ RewriteIdentity \/ RewriteStrength
SpecRewrite == InitRw /\ [][NextRw]_vars

\* C2: a single rewrite by folding, identity elimination or strength
\* reduction leaves the outcome of evaluating the expression unchanged.
C2_RewriteSound ==
    rw_out # NoneVal =>
        SameOutcome(EvaluateRecursively(rw_expr, rw_vars),
                    EvaluateRecursively(rw_out.node, rw_vars))

\* ------------------------------------- the evaluator under assignments
DPExprs ==
    {VarX,
     BinaryOpNode(Lit(1), "/", VarX),
     BinaryOpNode(VarX, "<", VarY),
     BinaryOpNode(BinaryOpNode(VarX, "+", VarY), "*", BinaryOpNode(VarX, "+", VarY))}
\* the assignments made to the mapping: x to a small number, y to 0
DPAssignments == {<<"x", Num(v)>> : v \in (-MaxVal)..0} \cup {<<"y", Num(0)>>}

InitDP ==
    /\ variables = Bind(NoVars, "x", Num(0))
    /\ dp_evaluator = NewEvaluator
    /\ DpIdle /\ OptIdle /\ RwIdle /\ RunIdle

\* variables[x] = v by the owner of the mapping
DPAssign ==
    /\ assigns < MaxAssigns
    /\ \E a \in DPAssignments :
          /\ variables' = Bind(variables, a[1], a[2])
          /\ dirty' = IF variables' # variables
                      THEN {c[1] : c \in DOMAIN returned_calls} \cup dirty
                           \cup (IF last_call = NoneVal THEN {} ELSE {last_call.node})
                      ELSE dirty
    /\ assigns' = assigns + 1
    /\ UNCHANGED <<dp_evaluator, evals, last_call, returned_calls, called_states>>
    /\ UNCHANGED <<optVars, rwVars, runVars>>

\* evaluate_with_dp(E, variables)
DPEvaluate ==
    /\ evals < MaxEvals
    /\ \E E \in DPExprs :
          LET r == EvaluateWithDP(E, variables, dp_evaluator)
          IN  /\ dp_evaluator' = r.ev
              /\ last_call' =
                    [node |-> E, variables |-> variables, result |-> r.result,
                     before |-> dp_evaluator, after |-> r.ev,
                     changed |-> E \in dirty,
                     repeat |-> <<E, variables>> \in DOMAIN returned_calls,
                     expected |-> IF <<E, variables>> \in DOMAIN returned_calls
                                  THEN returned_calls[<<E, variables>>]
                                  ELSE NoneVal,
                     fresh |-> \A v \in called_states :
                                  HashVarState(v) # HashVarState(variables)]
              /\ dirty' = dirty \ {E}
              /\ returned_calls' =
                    IF IsErr(r.result) THEN returned_calls
                    ELSE [c \in DOMAIN returned_calls \cup {<<E, variables>>} |->
                            IF c = <<E, variables>> THEN r.result
                            ELSE returned_calls[c]]
              /\ called_states' = called_states \cup {variables}
    /\ evals' = evals + 1
    /\ UNCHANGED <<variables, assigns>>
    /\ UNCHANGED <<optVars, rwVars, runVars>>

NextDP == DPEvaluate \/ DPAssign
SpecDP == InitDP /\ [][NextDP]_vars

\* the latest call missed at its root and recomputed the expression
LastCallMissed ==
    last_call.after.subproblem_count > last_call.before.subproblem_count

\* C3: every evaluate_with_dp call returns what the plain recursive
\* evaluation of the expression gives under the current mapping.
C3_DPEqualsPlain ==
    last_call # NoneVal =>
        SameOutcome(last_call.result,
                    EvaluateRecursively(last_call.node, last_call.variables))

\* C4: a call that repeats an expression that returned a value under the same
\* mapping is a hit: cache_hits grows by exactly one, subproblem_count and
\* the memo table are unchanged, and the value returned before is returned.
C4_RepeatHits ==
    (last_call # NoneVal /\ last_call.repeat) =>
        /\ last_call.after.cache_hits = last_call.before.cache_hits + 1
        /\ last_call.after.subproblem_count = last_call.before.subproblem_count
        /\ last_call.after.memo_table = last_call.before.memo_table
        /\ last_call.result = last_call.expected

\* a repeated call of the expression with the shared operand x + y
C4_Witness ==
    /\ last_call # NoneVal /\ last_call.repeat
    /\ last_call.node.type = "BinaryOpNode"
    /\ last_call.before.cache_hits > 0

ExecItem(node) == [op |-> "exec", node |-> node]
LoopItem(node) == [op |-> "loop", node |-> node]
ExecItems(ss) == [i \in 1..Len(ss) |-> ExecItem(ss[i])]

\* the body runs once and the condition is not tested again
BodyOnce(node) == ExecItems(node.body)

\* the condition held: the body's statements, then the condition again
BodyThenTest(node) == ExecItems(node.body) \o <<LoopItem(node)>>

\* only a division by zero is caught
CatchesZeroDivisionOnly(e) == e = "ZeroDivisionError"

\* 'except Exception' in interpret: every fault the evaluators and the
\* executors raise is an Exception
Catches(e) == e \in {"NameError", "TypeError", "ZeroDivisionError", "ValueError"}

\* evaluate_expression(node): the value (or fault) and the evaluator after it
EvaluateExpression(node) ==
    IF use_dp THEN EvaluateWithDP(node, variables, dp_evaluator)
    ELSE [result |-> EvaluateRecursively(node, variables), ev |-> dp_evaluator]

\* ------------------------------------------------------------ programs
\* x = 0; y = x + 0
Program7 ==
    BlockNode(<<AssignmentNode("x", Lit(0)),
                AssignmentNode("y", BinaryOpNode(VarX, "+", Lit(0)))>>)

\* n = 5; while n > 0 { n = n - 1 }
Program9 ==
    BlockNode(<<AssignmentNode("n", Lit(5)),
                WhileNode(BinaryOpNode(VariableNode("n"), ">", Lit(0)),
                          <<AssignmentNode("n",
                                BinaryOpNode(VariableNode("n"), "-", Lit(1)))>>)>>)

\* x = 0; if x { print("a") } else { print(x + 1) }; x + 2
ProgramIf ==
    BlockNode(<<AssignmentNode("x", Lit(0)),
                IfNode(VarX, <<PrintNode(StrA)>>,
                       <<PrintNode(BinaryOpNode(VarX, "+", Lit(1)))>>),
                BinaryOpNode(VarX, "+", Lit(2))>>)

\* expressions that raise: an undefined variable, unsupported operand types,
\* a division by zero, an operator outside op_map
FaultExprs ==
    {VarY, BinaryOpNode(StrA, "-", Lit(1)), BinaryOpNode(Lit(1), "/", Lit(0)),
     BinaryOpNode(Lit(1), "&", Lit(1))}

\* a faulting expression in the middle of a block, inside a branch, inside a
\* loop body, as a loop condition and after a re-assignment, each followed by
\* further statements
FaultPrograms ==
    UNION {
      {BlockNode(<<AssignmentNode("x", Lit(1)), AssignmentNode("z", f),
                   AssignmentNode("w", Lit(2))>>),
       BlockNode(<<AssignmentNode("x", Lit(1)),
                   IfNode(BinaryOpNode(VarX, ">", Lit(0)),
                          <<PrintNode(f), AssignmentNode("w", Lit(2))>>, <<>>),
                   AssignmentNode("v", Lit(2))>>),
       BlockNode(<<AssignmentNode("x", Lit(1)),
                   WhileNode(BinaryOpNode(VarX, ">", Lit(0)),
                             <<f, AssignmentNode("x", Lit(0))>>),
                   AssignmentNode("w", Lit(2))>>),
       BlockNode(<<AssignmentNode("x", Lit(1)),
                   WhileNode(f, <<AssignmentNode("x", Lit(0))>>),
                   AssignmentNode("w", Lit(2))>>),
       BlockNode(<<AssignmentNode("x", Lit(1)),
                   AssignmentNode("x", BinaryOpNode(VarX, "+", Lit(1))),
                   PrintNode(f), AssignmentNode("w", Lit(2))>>)} : f \in FaultExprs}

ConstLeaves == {Lit(i) : i \in 0..MaxNum}
\* a / 0 on two number literals
DivByZero == {BinaryOpNode(l, "/", Lit(0)) : l \in ConstLeaves}
\* constant expressions that contain a division of a literal by literal zero
DivZeroExprs ==
    DivByZero
    \cup {BinaryOpNode(d, op, l) : d \in DivByZero, op \in FoldableOps, l \in ConstLeaves}
    \cup {BinaryOpNode(l, op, d) : l \in ConstLeaves, op \in FoldableOps, d \in DivByZero}

RunPrograms ==
    {Program7, Program9, ProgramIf} \cup FaultPrograms \cup DivZeroExprs

\* the sub-expressions of an expression, itself included
RECURSIVE Subtrees(_)
Subtrees(node) ==
    IF IsBin(node) THEN {node} \cup Subtrees(node.left) \cup Subtrees(node.right)
    ELSE {node}

\* ------------------------------------------------- run_file, stepwise
InitRun ==
    /\ program \in RunPrograms
    /\ use_greedy \in BOOLEAN
    /\ use_dp \in BOOLEAN
    /\ run_pc = "optimize"
    /\ ast = NoneVal /\ stack = <<>> /\ result = NoneVal
    /\ messages = <<>> /\ output = <<>> /\ execution_count = 0
    /\ executed = <<>> /\ fault_at = 0
    /\ variables = NoVars /\ dp_evaluator = NewEvaluator
    /\ OptIdle /\ RwIdle /\ DpIdle

\* step 3 of run_file: the AST handed to interpret
RunOptimize ==
    /\ run_pc = "optimize"
    /\ ast' = IF use_greedy THEN Optimize(program).ast ELSE program
    /\ stack' = <<ExecItem(ast')>>
    /\ run_pc' = "execute"
    /\ UNCHANGED <<program, use_greedy, use_dp, result, messages, output,
                   execution_count, executed, fault_at>>
    /\ UNCHANGED <<optVars, rwVars, evVars, dpVars>>

\* the top work item is execute(node) for a node of one of the given types
Executing(types) ==
    /\ run_pc = "execute" /\ stack # <<>>
    /\ Head(stack).op = "exec" /\ Head(stack).node.type \in types

\* execute(node) was entered for the top work item
Entered ==
    /\ execution_count' = execution_count + 1
    /\ executed' = Append(executed, Head(stack).node)

\* a fault of kind e unwinds to interpret, which prints one message and
\* returns None when it catches the fault
Raise(e) ==
    /\ stack' = <<>>
    /\ fault_at' = Len(executed')
    /\ IF Catches(e)
       THEN /\ messages' = Append(messages, e)
            /\ result' = NoneVal
            /\ run_pc' = "done"
       ELSE /\ run_pc' = "crashed"
            /\ UNCHANGED <<messages, result>>

\* execute_NumberNode, _StringNode, _VariableNode, _BinaryOpNode
ExecExpression ==
    /\ Executing(ExprTypes)
    /\ Entered
    /\ LET r == EvaluateExpression(Head(stack).node)
       IN  /\ dp_evaluator' = r.ev
           /\ IF IsErr(r.result) THEN Raise(r.result.e)
              ELSE /\ result' = r.result
                   /\ stack' = Tail(stack)
                   /\ UNCHANGED <<run_pc, messages, fault_at>>
    /\ UNCHANGED <<variables, output, program, use_greedy, use_dp, ast>>
    /\ UNCHANGED <<optVars, rwVars, dpVars>>

\* an assignment that binds its variable to None when its value faults
ExecAssignmentBindsOnFault ==
    /\ Executing({"AssignmentNode"})
    /\ Entered
    /\ LET node == Head(stack).node
           r == EvaluateExpression(node.value)
       IN  /\ dp_evaluator' = r.ev
           /\ IF IsErr(r.result)
              THEN /\ Raise(r.result.e)
                   /\ variables' = Bind(variables, node.variable, NoneVal)
              ELSE /\ variables' = Bind(variables, node.variable, r.result)
                   /\ result' = r.result
                   /\ stack' = Tail(stack)
                   /\ UNCHANGED <<run_pc, messages, fault_at>>
    /\ UNCHANGED <<output, program, use_greedy, use_dp, ast>>
    /\ UNCHANGED <<optVars, rwVars, dpVars>>

\* execute_AssignmentNode
ExecAssignment ==
    /\ Executing({"AssignmentNode"})
    /\ Entered
    /\ LET node == Head(stack).node
           r == EvaluateExpression(node.value)
       IN  /\ dp_evaluator' = r.ev
           /\ IF IsErr(r.result)
              THEN Raise(r.result.e) /\ UNCHANGED variables
              ELSE /\ variables' = Bind(variables, node.variable, r.result)
                   /\ result' = r.result
                   /\ stack' = Tail(stack)
                   /\ UNCHANGED <<run_pc, messages, fault_at>>
    /\ UNCHANGED <<output, program, use_greedy, use_dp, ast>>
    /\ UNCHANGED <<optVars, rwVars, dpVars>>

\* execute_PrintNode
ExecPrint ==
    /\ Executing({"PrintNode"})
    /\ Entered
    /\ LET r == EvaluateExpression(Head(stack).node.expression)
       IN  /\ dp_evaluator' = r.ev
           /\ IF IsErr(r.result)
              THEN Raise(r.result.e) /\ UNCHANGED output
              ELSE /\ output' = Append(output, PyStr(r.result))
                   /\ result' = r.result
                   /\ stack' = Tail(stack)
                   /\ UNCHANGED <<run_pc, messages, fault_at>>
    /\ UNCHANGED <<variables, program, use_greedy, use_dp, ast>>
    /\ UNCHANGED <<optVars, rwVars, dpVars>>

\* execute_IfNode: the condition is evaluated and a branch is entered
ExecIf ==
    /\ Executing({"IfNode"})
    /\ Entered
    /\ LET node == Head(stack).node
           r == EvaluateExpression(node.condition)
       IN  /\ dp_evaluator' = r.ev
           /\ IF IsErr(r.result) THEN Raise(r.result.e)
              ELSE /\ result' = NoneVal
                   /\ stack' = (IF Truthy(r.result) THEN ExecItems(node.then_branch)
                                ELSE ExecItems(node.else_branch)) \o Tail(stack)
                   /\ UNCHANGED <<run_pc, messages, fault_at>>
    /\ UNCHANGED <<variables, output, program, use_greedy, use_dp, ast>>
    /\ UNCHANGED <<optVars, rwVars, dpVars>>

\* execute_WhileNode is entered: result = None, then the first test
ExecWhile ==
    /\ Executing({"WhileNode"})
    /\ Entered
    /\ result' = NoneVal
    /\ stack' = <<LoopItem(Head(stack).node)>> \o Tail(stack)
    /\ UNCHANGED <<run_pc, messages, fault_at, variables, dp_evaluator, output,
                   program, use_greedy, use_dp, ast>>
    /\ UNCHANGED <<optVars, rwVars, dpVars>>

\* the condition of a WhileNode is evaluated before an iteration
WhileTest ==
    /\ run_pc = "execute" /\ stack # <<>> /\ Head(stack).op = "loop"
    /\ LET node == Head(stack).node
           r == EvaluateExpression(node.condition)
       IN  /\ dp_evaluator' = r.ev
           /\ executed' = executed
           /\ IF IsErr(r.result) THEN Raise(r.result.e)
              ELSE /\ stack' = (IF Truthy(r.result) THEN BodyThenTest(node)
                                ELSE <<>>) \o Tail(stack)
                   /\ UNCHANGED <<run_pc, messages, fault_at, result>>
    /\ UNCHANGED <<variables, output, execution_count, program, use_greedy,
                   use_dp, ast>>
    /\ UNCHANGED <<optVars, rwVars, dpVars>>

\* execute_BlockNode
ExecBlock ==
    /\ Executing({"BlockNode"})
    /\ Entered
    /\ result' = NoneVal
    /\ stack' = ExecItems(Head(stack).node.statements) \o Tail(stack)
    /\ UNCHANGED <<run_pc, messages, fault_at, variables, dp_evaluator, output,
                   program, use_greedy, use_dp, ast>>
    /\ UNCHANGED <<optVars, rwVars, dpVars>>

\* execute returned to interpret, which returns the result
InterpretReturn ==
    /\ run_pc = "execute" /\ stack = <<>>
    /\ run_pc' = "done"
    /\ UNCHANGED <<program, use_greedy, use_dp, ast, stack, result, messages,
                   output, execution_count, executed, fault_at>>
    /\ UNCHANGED <<optVars, rwVars, evVars, dpVars>>

NextRun ==
    \/ RunOptimize \/ ExecExpression \/ ExecAssignment \/ ExecPrint \/ ExecIf
    \/ ExecWhile \/ WhileTest \/ ExecBlock \/ InterpretReturn
SpecRun == InitRun /\ [][NextRun]_vars

\* C6: a fault raised by a statement is not propagated: interpret reports
\* one runtime-error message, returns None, and executes nothing more.
C6_FailurePolicy ==
    fault_at > 0 =>
        /\ run_pc = "done"
        /\ Len(messages) = 1
        /\ result = NoneVal
        /\ stack = <<>>
        /\ Len(executed) = fault_at

\* a fault in the middle of a block, DP evaluator enabled
C6_Witness ==
    /\ fault_at > 0 /\ use_dp /\ run_pc = "done"
    /\ messages = <<"TypeError">>
    /\ "x" \in DOMAIN variables
    /\ program.type = "BlockNode" /\ Len(program.statements) > 2

\* C7: optimizing x = 0; y = x + 0 turns the assignment to y into y = x, and
\* interpreting the result leaves y == 0.
C7_StatementLevel ==
    (program = Program7 /\ use_greedy /\ run_pc \in {"execute", "done"}) =>
        /\ ast.statements[2].value = VarX
        /\ run_pc = "done" => variables["y"] = Num(0)

\* C9: the countdown program terminates with n == 0, whether or not the AST
\* went through optimize: the run is never stuck before interpret returns,
\* execute is entered at most 8 times (block, assignment, loop, five body
\* assignments), and the environment at the end is n == 0 in both runs.
C9_Countdown ==
    program = Program9 =>
        /\ run_pc # "done" => ENABLED NextRun
        /\ execution_count <= 8
        /\ run_pc = "done" =>
              /\ variables = Bind(NoVars, "n", Num(0))
              /\ messages = <<>>

C9_Witness ==
    /\ program = Program9 /\ use_greedy /\ run_pc = "done"
    /\ variables = Bind(NoVars, "n", Num(0))

\* C10: a division of a literal by literal zero inside a constant expression
\* is left in the optimized AST, and interpreting that AST reports a
\* division-by-zero runtime error and returns None.
C10_DivisionKept ==
    (program \in DivZeroExprs /\ use_greedy /\ run_pc = "done") =>
        /\ \A d \in DivByZero : d \in Subtrees(program) => d \in Subtrees(ast)
        /\ messages = <<"ZeroDivisionError">>
        /\ result = NoneVal

\* the environment the assignments among the given executed nodes build,
\* in their order, from the environment env
RECURSIVE EnvAfter(_, _)
EnvAfter(nodes, env) ==
    IF nodes = <<>> THEN env
    ELSE LET node == Head(nodes)
         IN  IF node.type = "AssignmentNode"
             THEN EnvAfter(Tail(nodes),
                           Bind(env, node.variable, EvaluateRecursively(node.value, env)))
             ELSE EnvAfter(Tail(nodes), env)

\* C19: after interpret caught a fault, the environment is exactly the one
\* built by the assignments executed before the faulting statement: their
\* bindings are kept, and nothing is bound by the faulting statement or by a
\* later one.
C19_NoRollback ==
    (fault_at > 0 /\ run_pc = "done") =>
        variables = EnvAfter(SubSeq(executed, 1, fault_at - 1), NoVars)

\* a faulting assignment after an executed assignment and before another one
C19_Witness ==
    /\ fault_at > 0 /\ run_pc = "done"
    /\ executed[fault_at].type = "AssignmentNode"
    /\ variables = Bind(NoVars, "x", Num(1))
    /\ program.type = "BlockNode" /\ Len(program.statements) > 2

====
